---- MODULE Spec2Model ----
(***************************************************************************)
(* State-machine model of the code-explorer widget: the zustand file store *)
(* (openedFiles, selectedPath), the IDE component's handlers               *)
(* (handleCloseFile, findFileContent, the defaultSelectedPath effect) and  *)
(* the FileTree component (handleFileOpen, isBinaryFile, the in-place      *)
(* children sort done while rendering).                                    *)
(*                                                                         *)
(* Strings of the program (names, paths) are sequences of one-character    *)
(* strings, so that template literals, String.replace, slice, lastIndexOf  *)
(* and toLowerCase are computed character by character.                    *)
(***************************************************************************)
EXTENDS Integers, Sequences, FiniteSets, TLC

\* ------------------------------------------------------------------ bounds
\* largest value of the maxFilesOpen prop that is enumerated
MaxFilesOpenBound == 2

\* ------------------------------------------------------- program constants
\* the fallback of `maxFilesOpen = 5` / `maxFilesOpen || 5`
DefaultMaxFilesOpen == 5

\* ------------------------------------------------------- JavaScript values
\* null and undefined, as one-element sequences that no path can equal
\* (every path starts with "/"); both are falsy.
Null == <<"null">>
Undefined == <<"undefined">>
\* the value of node.content / node.language on a node that has none
UndefinedField == "<undefined>"

Truthy(s) == s # Null /\ s # Undefined /\ s # <<>>

Max(a, b) == IF a >= b THEN a ELSE b
Min(a, b) == IF a <= b THEN a ELSE b

\* ------------------------------------------------------- string primitives
UpperChars == <<"A","B","C","D","E","F","G","H","I","J","K","L","M",
                "N","O","P","Q","R","S","T","U","V","W","X","Y","Z">>
LowerChars == <<"a","b","c","d","e","f","g","h","i","j","k","l","m",
                "n","o","p","q","r","s","t","u","v","w","x","y","z">>

LowerChar(c) ==
  IF \E i \in 1..Len(UpperChars) : UpperChars[i] = c
  THEN LowerChars[CHOOSE i \in 1..Len(UpperChars) : UpperChars[i] = c]
  ELSE c

\* String.prototype.toLowerCase
ToLowerCase(s) == [i \in 1..Len(s) |-> LowerChar(s[i])]

\* String.prototype.lastIndexOf(c): 0-based index of the last c, or -1
LastIndexOf(s, c) ==
  IF \E i \in 1..Len(s) : s[i] = c
  THEN (CHOOSE i \in 1..Len(s) : s[i] = c /\ \A j \in (i+1)..Len(s) : s[j] # c) - 1
  ELSE -1

\* String.prototype.slice(start): a negative start counts from the end
Slice(s, start) ==
  LET from == IF start < 0 THEN Max(Len(s) + start, 0) ELSE Min(start, Len(s))
  IN  SubSeq(s, from + 1, Len(s))

\* 1-based position of the first occurrence of pat in s, 0 when absent
IndexOf(s, pat) ==
  LET hits == {i \in 1..(Len(s) - Len(pat) + 1) : SubSeq(s, i, i + Len(pat) - 1) = pat}
  IN  IF hits = {} THEN 0 ELSE CHOOSE i \in hits : \A j \in hits : i <= j

\* String.prototype.replace(pat, ""): deletes the FIRST occurrence of pat,
\* wherever in s it is; s is returned unchanged when pat does not occur
ReplaceWithEmpty(s, pat) ==
  LET i == IndexOf(s, pat)
  IN  IF i = 0 THEN s
      ELSE SubSeq(s, 1, i - 1) \o SubSeq(s, i + Len(pat), Len(s))

\* Array.prototype.includes
Includes(arr, x) == \E i \in 1..Len(arr) : arr[i] = x

\* Array.prototype.filter((f) => f !== x)
RECURSIVE FilterNotEqual(_, _)
FilterNotEqual(arr, x) ==
  IF arr = <<>> THEN <<>>
  ELSE IF Head(arr) # x THEN <<Head(arr)>> \o FilterNotEqual(Tail(arr), x)
       ELSE FilterNotEqual(Tail(arr), x)

\* arr[i] with a 0-based index; undefined outside the array
At(arr, i) == IF i >= 0 /\ i < Len(arr) THEN arr[i + 1] ELSE Undefined

\* ------------------------------------------------------------ isBinaryFile
binaryExtensions ==
  << <<".","i","c","o">>, <<".","w","o","f","f">>, <<".","w","o","f","f","2">>,
     <<".","t","t","f">>, <<".","e","o","t">>, <<".","p","n","g">>,
     <<".","j","p","g">>, <<".","j","p","e","g">>, <<".","g","i","f">>,
     <<".","w","e","b","p">> >>

\* isBinaryFile without .toLowerCase()
isBinaryFile_CaseSensitive(fileName) ==
  Includes(binaryExtensions, Slice(fileName, LastIndexOf(fileName, ".")))

isBinaryFile(fileName) ==
  LET extension == ToLowerCase(Slice(fileName, LastIndexOf(fileName, ".")))
  IN  Includes(binaryExtensions, extension)

\* ------------------------------------------------------------ localeCompare
\* Collation order of the characters that occur in names: punctuation, then
\* digits, then letters (a letter's case is a secondary difference).
CollationChars ==
  <<"_","-",".","0","1","2","3","4","5","6","7","8","9",
    "a","b","c","d","e","f","g","h","i","j","k","l","m",
    "n","o","p","q","r","s","t","u","v","w","x","y","z">>

PrimaryRank(c) ==
  LET l == LowerChar(c)
  IN  IF \E i \in 1..Len(CollationChars) : CollationChars[i] = l
      THEN CHOOSE i \in 1..Len(CollationChars) : CollationChars[i] = l
      ELSE 0

\* 0 for a lowercase letter or a caseless character, 1 for an uppercase letter
CaseRank(c) == IF LowerChar(c) = c THEN 0 ELSE 1

\* lexicographic comparison of two sequences of ranks: -1, 0, 1
RECURSIVE CompareRanks(_, _)
CompareRanks(a, b) ==
  IF a = <<>> /\ b = <<>> THEN 0
  ELSE IF a = <<>> THEN -1
  ELSE IF b = <<>> THEN 1
  ELSE IF Head(a) < Head(b) THEN -1
  ELSE IF Head(a) > Head(b) THEN 1
  ELSE CompareRanks(Tail(a), Tail(b))

\* String.prototype.localeCompare: letters first (case-blind), case breaks ties
LocaleCompare(a, b) ==
  LET primary == CompareRanks([i \in 1..Len(a) |-> PrimaryRank(a[i])],
                              [i \in 1..Len(b) |-> PrimaryRank(b[i])])
  IN  IF primary # 0 THEN primary
      ELSE CompareRanks([i \in 1..Len(a) |-> CaseRank(a[i])],
                        [i \in 1..Len(b) |-> CaseRank(b[i])])

\* ------------------------------------------------------------- tree nodes
\* interface FileExplorer; a file carries an empty children sequence, on which
\* the loop of findFileContent and the sort of FileTree do nothing
FileNode(name, content, language) ==
  [name |-> name, type |-> "file", children |-> <<>>,
   content |-> content, language |-> language]

DirNode(name, children) ==
  [name |-> name, type |-> "directory", children |-> children,
   content |-> UndefinedField, language |-> UndefinedField]

\* `${path}/${item.name}`
FullPath(path, item) == path \o <<"/">> \o item.name

\* the comparator without its two directory/file tests
CompareChildren_NameOnly(a, b) == LocaleCompare(a.name, b.name)

\* the comparator handed to item.children.sort
CompareChildren(a, b) ==
  IF a.type = "directory" /\ b.type = "file" THEN -1
  ELSE IF a.type = "file" /\ b.type = "directory" THEN 1
  ELSE LocaleCompare(a.name, b.name)

\* Array.prototype.sort is stable: x goes behind every element it does not
\* precede
RECURSIVE InsertChild(_, _)
InsertChild(sorted, x) ==
  IF sorted = <<>> THEN <<x>>
  ELSE IF CompareChildren(x, Head(sorted)) < 0 THEN <<x>> \o sorted
       ELSE <<Head(sorted)>> \o InsertChild(Tail(sorted), x)

RECURSIVE SortChildren(_)
SortChildren(children) ==
  IF children = <<>> THEN <<>>
  ELSE InsertChild(SortChildren(SubSeq(children, 1, Len(children) - 1)),
                   children[Len(children)])

\* One render pass of FileTree on item: a directory sorts its children array
\* IN PLACE and creates a FileTree for every child; the child FileTrees are
\* rendered (and sort their own children) only while the accordion of item is
\* open.  The result is the tree object as the pass leaves it.
RECURSIVE RenderFileTree(_, _, _)
RenderFileTree(item, path, open) ==
  IF item.type # "directory" THEN item
  ELSE LET fullPath == FullPath(path, item)
           sorted   == SortChildren(item.children)
       IN  [item EXCEPT !.children =
              IF fullPath \in open
              THEN [i \in 1..Len(sorted) |-> RenderFileTree(sorted[i], fullPath, open)]
              ELSE sorted]

\* every node of the tree with its full path
RECURSIVE Walk(_, _)
Walk(item, path) ==
  LET fullPath == FullPath(path, item)
  IN  {[path |-> fullPath, item |-> item]} \cup
      UNION {Walk(item.children[i], fullPath) : i \in 1..Len(item.children)}

\* the nodes whose FileTree is mounted: the root, and the children of every
\* mounted directory whose accordion is open
RECURSIVE MountedNodes(_, _, _)
MountedNodes(item, path, open) ==
  LET fullPath == FullPath(path, item)
  IN  {[path |-> fullPath, item |-> item]} \cup
      (IF fullPath \in open
       THEN UNION {MountedNodes(item.children[i], fullPath, open) :
                     i \in 1..Len(item.children)}
       ELSE {})

\* ---------------------------------------------------------- findFileContent
NotFound == [found |-> FALSE]
Found(content, language) == [found |-> TRUE, content |-> content, language |-> language]

RECURSIVE findFileContent(_, _)
RECURSIVE findInChildren(_, _, _)

\* the loop descending only into the first child whose nodePath is a textual
\* prefix of the remaining path, without trying its siblings
RECURSIVE findInChildren_CommitPrefix(_, _, _)
findInChildren_CommitPrefix(children, i, stripped) ==
  IF i > Len(children) THEN NotFound
  ELSE LET nodePath == <<"/">> \o children[i].name
       IN  IF Len(stripped) >= Len(nodePath)
              /\ SubSeq(stripped, 1, Len(nodePath)) = nodePath
           THEN findFileContent(children[i], stripped)
           ELSE findInChildren_CommitPrefix(children, i + 1, stripped)

\* for (const child of node.children) { ... if (result) return result; }
findInChildren(children, i, stripped) ==
  IF i > Len(children) THEN NotFound
  ELSE LET result == findFileContent(children[i], stripped)
       IN  IF result.found THEN result
           ELSE findInChildren(children, i + 1, stripped)

findFileContent(node, targetPath) ==
  LET nodePath == <<"/">> \o node.name
  IN  IF nodePath = targetPath THEN Found(node.content, node.language)
      ELSE findInChildren(node.children, 1, ReplaceWithEmpty(targetPath, nodePath))

\* ------------------------------------------------------------ input trees
\* proj/src/{a.ts, b.ts}
TreeScenario ==
  DirNode(<<"p","r","o","j">>,
    << DirNode(<<"s","r","c">>,
         << FileNode(<<"a",".","t","s">>, "x\ny\nfoo\n", "ts"),
            FileNode(<<"b",".","t","s">>, "foo\nbar\n", "ts") >>) >>)

\* proj/{x.ts, logo.PNG, a/{y.ts, x.ts}}: the name x.ts at two depths, a
\* binary file with an upper-case extension, children handed in unsorted
TreeShadow ==
  DirNode(<<"p","r","o","j">>,
    << FileNode(<<"x",".","t","s">>, "B", "ts"),
       FileNode(<<"l","o","g","o",".","P","N","G">>, "PNGDATA", UndefinedField),
       DirNode(<<"a">>,
         << FileNode(<<"y",".","t","s">>, "Y", "ts"),
            FileNode(<<"x",".","t","s">>, "A", "ts") >>) >>)

Trees == {TreeScenario, TreeShadow}

\* proj/src/{app2/f.ts, app/f.ts}: sibling directories of which one name is
\* a prefix of the other, handed in with app2 first
TreePrefix ==
  DirNode(<<"p","r","o","j">>,
    << DirNode(<<"s","r","c">>,
         << DirNode(<<"a","p","p","2">>,
              << FileNode(<<"f",".","t","s">>, "F2", "ts") >>),
            DirNode(<<"a","p","p">>,
              << FileNode(<<"f",".","t","s">>, "F1", "ts") >>) >>) >>)

\* proj/{app2/f.ts, app/{f.ts, app2/f.ts}}: app holds a directory with the
\* name of its own sibling
TreePrefixNested ==
  DirNode(<<"p","r","o","j">>,
    << DirNode(<<"a","p","p","2">>,
         << FileNode(<<"f",".","t","s">>, "F2", "ts") >>),
       DirNode(<<"a","p","p">>,
         << FileNode(<<"f",".","t","s">>, "F1", "ts"),
            DirNode(<<"a","p","p","2">>,
              << FileNode(<<"f",".","t","s">>, "DEEP", "ts") >>) >>) >>)

\* proj/{b.ts, lib/, a.ts, App/}: two directories and two files in an order
\* that is sorted in neither respect
TreeMixed ==
  DirNode(<<"p","r","o","j">>,
    << FileNode(<<"b",".","t","s">>, "b", "ts"),
       DirNode(<<"l","i","b">>, <<>>),
       FileNode(<<"a",".","t","s">>, "a", "ts"),
       DirNode(<<"A","p","p">>, <<>>) >>)

\* the trees of the specification that resolves paths and orders children
ResolveTrees == {TreePrefix, TreePrefixNested, TreeMixed}

FilePaths(tree) == {n.path : n \in {m \in Walk(tree, <<>>) : m.item.type = "file"}}
DirPaths(tree) == {n.path : n \in {m \in Walk(tree, <<>>) : m.item.type = "directory"}}
NodeAt(tree, path) == (CHOOSE n \in Walk(tree, <<>>) : n.path = path).item

\* the value of the maxFilesOpen prop when the caller does not pass it
NotPassed == -1

\* ------------------------------------------------------------------ state
VARIABLES
  snapshot,      \* the tree as the caller built it
  root,          \* the root object handed to IDE (the same object, rendered)
  props,         \* maxFilesOpen and defaultSelectedPath of IDE
  pc,            \* "init" before the first render, "mounted" after it
  openDirs,      \* full paths of the directories whose accordion is open
  openedFiles,   \* useFileStore: openedFiles
  selectedPath,  \* useFileStore: selectedPath
  last,          \* the intent handled last: its name, its path argument, and
                 \* the store's openedFiles and selectedPath when it arrived
  expandedPaths, \* useFileStore: expandedPaths
  code,          \* CodeBlock: the lines of the code prop
  searchQuery,   \* CodeBlock: searchQuery
  searchResults, \* CodeBlock: searchResults, 1-based line numbers
  currentResultIndex, \* CodeBlock: currentResultIndex
  lastSearch     \* the search command handled last, with the state it found

\* the state of the explorer (IDE, FileTree, useFileStore)
treeVars == <<snapshot, root, props, pc, openDirs, openedFiles, selectedPath,
              last, expandedPaths>>

\* the state of one CodeBlock
searchVars == <<code, searchQuery, searchResults, currentResultIndex, lastSearch>>

vars == <<treeVars, searchVars>>

\* IDE: `maxFilesOpen = 5` in the parameter list
IDEMaxFilesOpen == IF props.maxFilesOpen = NotPassed THEN DefaultMaxFilesOpen
                   ELSE props.maxFilesOpen

\* FileTree: `maxFilesOpen || 5`
Capacity == IF IDEMaxFilesOpen = 0 THEN DefaultMaxFilesOpen ELSE IDEMaxFilesOpen

\* const selectedFile = selectedPath ? findFileContent(root, selectedPath) : null
selectedFile ==
  IF Truthy(selectedPath) THEN findFileContent(root, selectedPath) ELSE NotFound

\* `selectedFile?.content ?` : FileViewer (the tab strip) is rendered
ViewerShown ==
  /\ selectedFile.found
  /\ selectedFile.content \notin {"", UndefinedField}

\* the record kept of an intent that is being handled
Intent(op, path) ==
  [op |-> op, path |-> path, files |-> openedFiles, selected |-> selectedPath,
   expanded |-> expandedPaths]

\* no CodeBlock is mounted
NoCodeBlock ==
  /\ code = <<>>
  /\ searchQuery = <<>>
  /\ searchResults = <<>>
  /\ currentResultIndex = -1
  /\ lastSearch = [op |-> "none"]

Init ==
  /\ snapshot \in Trees
  /\ root = snapshot
  /\ props \in [maxFilesOpen : {NotPassed} \cup 0..MaxFilesOpenBound,
                defaultSelectedPath : {Undefined} \cup FilePaths(snapshot)]
  /\ pc = "init"
  /\ openDirs = {}
  /\ openedFiles = <<>>
  /\ selectedPath = Null
  /\ expandedPaths = {}
  /\ last = Intent("none", Undefined)
  /\ NoCodeBlock

\* ---------------------------------------------------------------- actions
\* First render of IDE and FileTree (the root's children are sorted), then
\* the effect: if (defaultSelectedPath) setSelectedPath(defaultSelectedPath)
Mount ==
  /\ pc = "init"
  /\ pc' = "mounted"
  /\ root' = RenderFileTree(root, <<>>, openDirs)
  /\ selectedPath' = IF Truthy(props.defaultSelectedPath)
                     THEN props.defaultSelectedPath ELSE selectedPath
  /\ last' = Intent("mount", props.defaultSelectedPath)
  /\ UNCHANGED <<snapshot, props, openDirs, openedFiles>>
  /\ UNCHANGED <<expandedPaths, searchVars>>

\* A click on the AccordionTrigger of a mounted directory: opening mounts the
\* children's FileTrees, which render; closing unmounts everything below.
AccordionToggle(dir) ==
  /\ pc = "mounted"
  /\ \E n \in MountedNodes(root, <<>>, openDirs) :
        n.path = dir /\ n.item.type = "directory"
  /\ openDirs' = IF dir \in openDirs
                 THEN {d \in openDirs :
                         ~(Len(d) >= Len(dir) /\ SubSeq(d, 1, Len(dir)) = dir)}
                 ELSE openDirs \cup {dir}
  /\ root' = RenderFileTree(root, <<>>, openDirs')
  /\ last' = Intent("toggle", dir)
  /\ UNCHANGED <<snapshot, props, pc, openedFiles, selectedPath>>
  /\ UNCHANGED <<expandedPaths, searchVars>>

\* handleFileOpen without the `!openedFiles.includes(filePath)` test
OpenedFilesAfterOpen_NoIncludes(files, filePath, capacity) ==
  files \o <<filePath>>

\* handleFileOpen moving a re-opened file to the end (most recently used last)
OpenedFilesAfterOpen_MoveToEnd(files, filePath, capacity) ==
  FilterNotEqual(files, filePath) \o <<filePath>>

\* handleFileOpen, the value of the store's openedFiles when it returns.
\* `files` is the openedFiles of the render's closure: the eviction is
\* written to the store, and then overwritten by [...openedFiles, filePath]
\* computed from the same closure value.
OpenedFilesAfterOpen(files, filePath, capacity) ==
  IF ~Includes(files, filePath)
  THEN LET evicted  == IF Len(files) >= capacity
                       THEN FilterNotEqual(files, At(files, 0))
                       ELSE files
           appended == files \o <<filePath>>
       IN  appended
  ELSE files

handleFileOpen(filePath) ==
  /\ openedFiles' = OpenedFilesAfterOpen(openedFiles, filePath, Capacity)
  /\ selectedPath' = filePath

\* onClick of a mounted file row: !isBinary && handleFileOpen(fullPath)
onClick(fullPath) ==
  /\ pc = "mounted"
  /\ \E n \in MountedNodes(root, <<>>, openDirs) :
        /\ n.path = fullPath
        /\ n.item.type = "file"
        /\ IF ~isBinaryFile(n.item.name)
           THEN handleFileOpen(fullPath)
           ELSE UNCHANGED <<openedFiles, selectedPath>>
  /\ last' = Intent("open", fullPath)
  /\ UNCHANGED <<snapshot, root, props, pc, openDirs>>
  /\ UNCHANGED <<expandedPaths, searchVars>>

\* handleCloseFile dropping the oldest tab instead of the closed one
OpenedFilesAfterClose_DropFirst(files, path) == Tail(files)

\* setOpenedFiles(openedFiles.filter((f) => f !== path))
OpenedFilesAfterClose(files, path) == FilterNotEqual(files, path)

\* handleCloseFile falling back to openedFiles[openedFiles.length - 1]
SelectedAfterClose_LastIndex(files, selected, path) ==
  IF selected = path THEN At(files, Len(files) - 1) ELSE selected

\* if (selectedPath === path) setSelectedPath(openedFiles[openedFiles.length - 2])
SelectedAfterClose(files, selected, path) ==
  IF selected = path THEN At(files, Len(files) - 2) ELSE selected

\* the close button of a tab of the tab strip
handleCloseFile(path) ==
  /\ pc = "mounted"
  /\ ViewerShown
  /\ Includes(openedFiles, path)
  /\ openedFiles' = OpenedFilesAfterClose(openedFiles, path)
  /\ selectedPath' = SelectedAfterClose(openedFiles, selectedPath, path)
  /\ last' = Intent("close", path)
  /\ UNCHANGED <<snapshot, root, props, pc, openDirs>>
  /\ UNCHANGED <<expandedPaths, searchVars>>

\* setSelectedPath: (path) => set({ selectedPath: path })
setSelectedPath(selected, path) == path

\* onSelectFile={setSelectedPath}: a click on a tab of the tab strip
onSelectFile(path) ==
  /\ pc = "mounted"
  /\ ViewerShown
  /\ Includes(openedFiles, path)
  /\ selectedPath' = setSelectedPath(selectedPath, path)
  /\ last' = Intent("select", path)
  /\ UNCHANGED <<snapshot, root, props, pc, openDirs, openedFiles>>
  /\ UNCHANGED <<expandedPaths, searchVars>>

\* handleFileSelect={(path) => setSelectedPath(path)}: the selection callback
\* IDE hands to the tree, for the path of any node
handleFileSelect(path) ==
  /\ pc = "mounted"
  /\ path \in FilePaths(root) \cup DirPaths(root)
  /\ selectedPath' = setSelectedPath(selectedPath, path)
  /\ last' = Intent("select", path)
  /\ UNCHANGED <<snapshot, root, props, pc, openDirs, openedFiles>>
  /\ UNCHANGED <<expandedPaths, searchVars>>

AllPaths == FilePaths(snapshot) \cup DirPaths(snapshot)

Next ==
  \/ Mount
  \/ \E dir \in AllPaths : AccordionToggle(dir)
  \/ \E p \in AllPaths : onClick(p)
  \/ \E p \in AllPaths : handleCloseFile(p)
  \/ \E p \in AllPaths : onSelectFile(p)
  \/ \E p \in AllPaths : handleFileSelect(p)

Spec == Init /\ [][Next]_vars

\* The explorer on the trees of ResolveTrees, with neither maxFilesOpen nor
\* defaultSelectedPath passed
InitResolve ==
  /\ snapshot \in ResolveTrees
  /\ root = snapshot
  /\ props = [maxFilesOpen |-> NotPassed, defaultSelectedPath |-> Undefined]
  /\ pc = "init"
  /\ openDirs = {}
  /\ openedFiles = <<>>
  /\ selectedPath = Null
  /\ expandedPaths = {}
  /\ last = Intent("none", Undefined)
  /\ NoCodeBlock

SpecResolve == InitResolve /\ [][Next]_vars

\* ------------------------------------------------- useFileStore.toggleExpanded
\* toggleExpanded that only ever adds the path
ToggleExpanded_AddOnly(expanded, path) == expanded \cup {path}

\* newExpanded.has(path) ? newExpanded.delete(path) : newExpanded.add(path)
ToggleExpanded(expanded, path) ==
  IF path \in expanded THEN expanded \ {path} ELSE expanded \cup {path}

\* the store action, called with the full path of a node
toggleExpanded(path) ==
  /\ pc = "mounted"
  /\ expandedPaths' = ToggleExpanded(expandedPaths, path)
  /\ last' = Intent("toggleExpanded", path)
  /\ UNCHANGED <<snapshot, root, props, pc, openDirs, openedFiles, selectedPath>>
  /\ UNCHANGED searchVars

\* The explorer on the spec's scenario tree with the store's toggleExpanded
InitExpand ==
  /\ snapshot = TreeScenario
  /\ root = snapshot
  /\ props = [maxFilesOpen |-> NotPassed, defaultSelectedPath |-> Undefined]
  /\ pc = "init"
  /\ openDirs = {}
  /\ openedFiles = <<>>
  /\ selectedPath = Null
  /\ expandedPaths = {}
  /\ last = Intent("none", Undefined)
  /\ NoCodeBlock

NextExpand ==
  \/ Mount
  \/ \E dir \in AllPaths : AccordionToggle(dir)
  \/ \E p \in AllPaths : onClick(p)
  \/ \E p \in AllPaths : toggleExpanded(p)

SpecExpand == InitExpand /\ [][NextExpand]_vars

\* ============================================================== CodeBlock
\* largest length of initialSearchResults, and largest line number in it
MaxInitialResults == 2

\* the code prop, line by line
BufferB == << <<"f","o","o">>, <<"b","a","r">> >>
BufferA == << <<"x">>, <<"y">>, <<"f","o","o">>, <<>> >>
BufferMany ==
  << <<"F","o","o"," ","b","a","r">>, <<"f","O","O">>, <<"b","a","z">>,
     <<"f","o","o","f","o","o">> >>

Buffers == {BufferB, BufferA, BufferMany}

Queries == {<<>>, <<"f","o","o">>, <<"F","O","O">>, <<"b","a">>, <<"z","z">>}

\* the values of the initialSearchResults prop
InitialResults ==
  UNION {[1..n -> 1..MaxInitialResults] : n \in 0..MaxInitialResults}

\* useState(initialSearchResults.length > 0 ? 0 : -1), with an always-0 slip
InitialResultIndex_AlwaysZero(initialSearchResults) == 0

\* useState(initialSearchResults.length > 0 ? 0 : -1)
InitialResultIndex(initialSearchResults) ==
  IF Len(initialSearchResults) > 0 THEN 0 ELSE -1

\* the record kept of a search command that is being handled
Command(op, arg) ==
  [op |-> op, arg |-> arg, query |-> searchQuery, results |-> searchResults,
   index |-> currentResultIndex]

\* the explorer is not part of a behaviour of one CodeBlock
NoExplorer ==
  /\ snapshot = TreeScenario
  /\ root = snapshot
  /\ props = [maxFilesOpen |-> NotPassed, defaultSelectedPath |-> Undefined]
  /\ pc = "init"
  /\ openDirs = {}
  /\ openedFiles = <<>>
  /\ selectedPath = Null
  /\ expandedPaths = {}
  /\ last = Intent("none", Undefined)

\* the useState initialisers of CodeBlock
InitSearch ==
  /\ NoExplorer
  /\ code \in Buffers
  /\ searchQuery \in Queries
  /\ searchResults \in InitialResults
  /\ currentResultIndex = InitialResultIndex(searchResults)
  /\ lastSearch = Command("none", <<>>)

\* line contains query, letters compared case-blind
ContainsIgnoreCase(line, query) ==
  IndexOf(ToLowerCase(line), ToLowerCase(query)) # 0

\* the search comparing letters case-sensitively
RECURSIVE SearchMatches_CaseSensitive(_, _, _)
SearchMatches_CaseSensitive(buffer, query, k) ==
  IF k > Len(buffer) THEN <<>>
  ELSE (IF IndexOf(buffer[k], query) # 0 THEN <<k>> ELSE <<>>)
       \o SearchMatches_CaseSensitive(buffer, query, k + 1)

\* the 1-based numbers, from k on, of the lines that contain query
RECURSIVE SearchMatches(_, _, _)
SearchMatches(buffer, query, k) ==
  IF k > Len(buffer) THEN <<>>
  ELSE (IF ContainsIgnoreCase(buffer[k], query) THEN <<k>> ELSE <<>>)
       \o SearchMatches(buffer, query, k + 1)

\* what setQuery leaves in matches and cursor
SetQueryResult(buffer, query) ==
  LET matches == IF query = <<>> THEN <<>> ELSE SearchMatches(buffer, query, 1)
  IN  [results |-> matches, index |-> IF Len(matches) > 0 THEN 0 ELSE -1]

setQuery(query) ==
  /\ searchQuery' = query
  /\ searchResults' = SetQueryResult(code, query).results
  /\ currentResultIndex' = SetQueryResult(code, query).index
  /\ lastSearch' = Command("setQuery", query)
  /\ UNCHANGED <<code, treeVars>>

\* next() stepping forward without wrapping
NextIndex_NoWrap(index, n) == IF n = 0 THEN index ELSE index + 1

\* the cursor after next() on n matches
NextIndex(index, n) == IF n = 0 THEN index ELSE (index + 1) % n

\* the cursor after previous() on n matches
PreviousIndex(index, n) == IF n = 0 THEN index ELSE (index - 1 + n) % n

next ==
  /\ currentResultIndex' = NextIndex(currentResultIndex, Len(searchResults))
  /\ lastSearch' = Command("next", <<>>)
  /\ UNCHANGED <<code, searchQuery, searchResults, treeVars>>

previous ==
  /\ currentResultIndex' = PreviousIndex(currentResultIndex, Len(searchResults))
  /\ lastSearch' = Command("previous", <<>>)
  /\ UNCHANGED <<code, searchQuery, searchResults, treeVars>>

clear ==
  /\ searchQuery' = <<>>
  /\ searchResults' = <<>>
  /\ currentResultIndex' = -1
  /\ lastSearch' = Command("clear", <<>>)
  /\ UNCHANGED <<code, treeVars>>

NextSearch ==
  \/ \E query \in Queries : setQuery(query)
  \/ next
  \/ previous
  \/ clear

SpecSearch == InitSearch /\ [][NextSearch]_vars

\* ================================================================== claims
\* "no Selection": the store holds null (its initial value) or undefined (an
\* out-of-range array read); both are falsy wherever selectedPath is read
NoSelection(s) == s \in {Null, Undefined}

\* name ends with one of the binary extensions, letters compared case-blind
HasBinaryExtension(name) ==
  \E k \in 1..Len(binaryExtensions) :
    LET ext == binaryExtensions[k]
    IN  /\ Len(name) >= Len(ext)
        /\ ToLowerCase(SubSeq(name, Len(name) - Len(ext) + 1, Len(name))) = ext

\* the intent handled last was an open intent on a non-binary file
LastOpenedText ==
  /\ last.op = "open"
  /\ ~HasBinaryExtension(NodeAt(root, last.path).name)

\* after is before with exactly one entry, equal to path, taken out
RemovedOnce(before, after, path) ==
  \E i \in 1..Len(before) :
    /\ before[i] = path
    /\ after = SubSeq(before, 1, i - 1) \o SubSeq(before, i + 1, Len(before))

\* C1: the number of opened files never exceeds the configured capacity
\* (maxFilesOpen, 5 when not configured).
C1_CapacityInvariant == Len(openedFiles) <= Capacity

\* C2: an open intent on a file that is not open, arriving when openedFiles
\* is at capacity, removes the entry at index 0 and appends the path at the
\* end.
C2_FifoEviction ==
  (/\ LastOpenedText
   /\ ~Includes(last.files, last.path)
   /\ Len(last.files) >= Capacity)
  => openedFiles = Tail(last.files) \o <<last.path>>

\* C3: selectedPath is no Selection or an element of openedFiles.
C3_SelectionInvariant ==
  NoSelection(selectedPath) \/ Includes(openedFiles, selectedPath)

C5_NoDuplicates ==
  \A i, j \in 1..Len(openedFiles) : i # j => openedFiles[i] # openedFiles[j]

\* C5 witness: an open intent on an already open file, then still two tabs
C5_WitnessReopen ==
  /\ LastOpenedText
  /\ Includes(last.files, last.path)
  /\ Len(openedFiles) >= 2

\* C6: a select intent on a path that is not open leaves selectedPath and
\* openedFiles unchanged.
C6_SelectRejectsNotOpen ==
  (last.op = "select" /\ ~Includes(last.files, last.path))
  => (selectedPath = last.selected /\ openedFiles = last.files)

\* C7: an open intent on an already open file leaves openedFiles unchanged,
\* and every open intent on a text file ends with Selection = path and path
\* in openedFiles.
C7_OpenFrame ==
  LastOpenedText
  => /\ Includes(last.files, last.path) => openedFiles = last.files
     /\ selectedPath = last.path
     /\ Includes(openedFiles, last.path)

\* C7 witness: re-opening an open file that is not the last tab and not the
\* Selection
C7_WitnessReopenInner ==
  /\ LastOpenedText
  /\ Len(last.files) >= 2
  /\ last.files[1] = last.path
  /\ last.selected # last.path
  /\ selectedPath = last.path

\* C8: closeFile removes the path and keeps the other entries in order; a
\* Selection other than the closed path is left unchanged.
C8_CloseFrame ==
  last.op = "close"
  => /\ ~Includes(openedFiles, last.path)
     /\ RemovedOnce(last.files, openedFiles, last.path)
     /\ last.selected # last.path => selectedPath = last.selected

\* C8 witness: the middle one of three tabs closed while another is selected
C8_WitnessCloseMiddle ==
  /\ last.op = "close"
  /\ Len(last.files) = 3
  /\ last.path = last.files[2]
  /\ last.selected = last.files[3]
  /\ selectedPath = last.selected
  /\ Len(openedFiles) = 2

\* C9: an open intent on a directory (a click on its accordion trigger) or on
\* a file with a binary extension changes neither openedFiles nor
\* selectedPath, and openedFiles holds only paths of non-binary files.
C9_RejectDirectoryAndBinary ==
  /\ \A i \in 1..Len(openedFiles) :
        /\ openedFiles[i] \in FilePaths(root)
        /\ ~HasBinaryExtension(NodeAt(root, openedFiles[i]).name)
  /\ (last.op = "toggle"
        \/ (last.op = "open" /\ HasBinaryExtension(NodeAt(root, last.path).name)))
     => (openedFiles = last.files /\ selectedPath = last.selected)

\* C9 witness: a click on logo.PNG while a text file is open and selected
C9_WitnessBinaryClick ==
  /\ last.op = "open"
  /\ HasBinaryExtension(NodeAt(root, last.path).name)
  /\ Len(openedFiles) >= 1
  /\ selectedPath = openedFiles[1]

\* C10: for every file node, findFileContent on the path built by walking
\* from the root returns the content and language stored at that node.
C10_ResolveCorrect ==
  \A n \in Walk(root, <<>>) :
    n.item.type = "file"
    => findFileContent(root, n.path) = Found(n.item.content, n.item.language)

\* the names that occur in the tree
NamesOf(tree) == {n.item.name : n \in Walk(tree, <<>>)}

\* every path of one, two or three segments made of names of the tree
SegmentPaths(tree) ==
  LET N == NamesOf(tree)
      One == {<<"/">> \o a : a \in N}
      Two == {p \o <<"/">> \o b : p \in One, b \in N}
      Three == {p \o <<"/">> \o c : p \in Two, c \in N}
  IN  One \cup Two \cup Three

\* the paths obtained by walking the tree from the root, segment by segment
WalkPaths(tree) == {n.path : n \in Walk(tree, <<>>)}

\* C11: for every path that is not obtained by walking the tree from the
\* root, findFileContent returns not-found.
C11_NotFound ==
  \A P \in SegmentPaths(root) \ WalkPaths(root) :
    findFileContent(root, P) = NotFound

\* a is a proper prefix of b
ProperPrefix(a, b) == Len(a) < Len(b) /\ SubSeq(b, 1, Len(a)) = a

\* the positions of the children whose name extends the name of a sibling
LongerSiblings(children) ==
  {k \in 1..Len(children) :
     \E i \in 1..Len(children) : ProperPrefix(children[i].name, children[k].name)}

\* the nodes below a directory that has a sibling whose name is a proper
\* prefix of its own name (app2 next to app), with their full paths
FilesUnderLongerSibling(tree) ==
  UNION {UNION {Walk(d.item.children[j], d.path) : j \in LongerSiblings(d.item.children)} :
           d \in Walk(tree, <<>>)}

\* C12: a file below "app2" resolves to its own content and language, in
\* whichever order "app" and "app2" are visited and whatever "app" holds.
C12_PrefixSibling ==
  \A n \in FilesUnderLongerSibling(root) :
    n.item.type = "file"
    => findFileContent(root, n.path) = Found(n.item.content, n.item.language)

\* C12 witness: the selected file lies below app2, app is visited before
\* app2, and the viewer shows the file's own content
C12_WitnessAppFirst ==
  /\ pc = "mounted"
  /\ \E n \in FilesUnderLongerSibling(root) :
        /\ n.item.type = "file"
        /\ selectedPath = n.path
        /\ selectedFile = Found(n.item.content, n.item.language)
  /\ \E d \in Walk(root, <<>>) :
        \E i, k \in 1..Len(d.item.children) :
           /\ i < k
           /\ ProperPrefix(d.item.children[i].name, d.item.children[k].name)
           /\ d.item.children[i].children # <<>>

\* C13: every directory's children sequence is the one of the snapshot the
\* caller handed in, same elements in the same order.
C13_TreeUnmodified ==
  \A n \in Walk(root, <<>>) :
    n.item.children = NodeAt(snapshot, n.path).children

\* the name and type of every child, in order
Entries(children) ==
  [i \in 1..Len(children) |-> <<children[i].name, children[i].type>>]

\* the directories whose FileTree has rendered its children
RenderedDirs ==
  IF pc = "mounted"
  THEN {n \in MountedNodes(root, <<>>, openDirs) : n.item.type = "directory"}
  ELSE {}

\* C14: the rendered children of a directory are a permutation of its
\* children, every directory precedes every file, names ascend within the
\* directories and within the files, and every input order of the children
\* gives this same sequence.
C14_DisplayOrder ==
  \A d \in RenderedDirs :
    LET shown == d.item.children
        given == NodeAt(snapshot, d.path).children
        n     == Len(given)
    IN  /\ Len(shown) = n
        /\ \E f \in Permutations(1..n) :
              Entries(shown) = [i \in 1..n |-> Entries(given)[f[i]]]
        /\ \A i, j \in 1..n :
              i < j =>
                 /\ ~(shown[i].type = "file" /\ shown[j].type = "directory")
                 /\ shown[i].type = shown[j].type
                      => LocaleCompare(shown[i].name, shown[j].name) < 0
        /\ \A f \in Permutations(1..n) :
              Entries(SortChildren([i \in 1..n |-> given[f[i]]])) = Entries(shown)

\* C14 witness: a rendered directory with two directories and two files
\* whose children were handed in in another order
C14_WitnessReordered ==
  \E d \in RenderedDirs :
    /\ Entries(d.item.children) # Entries(NodeAt(snapshot, d.path).children)
    /\ Cardinality({i \in 1..Len(d.item.children) : d.item.children[i].type = "directory"}) >= 2
    /\ Cardinality({i \in 1..Len(d.item.children) : d.item.children[i].type = "file"}) >= 2

\* C15: on a non-empty matches list next() moves the cursor to
\* (cursor+1) mod |matches| and previous() to (cursor-1) mod |matches|, so
\* the cursor stays in 0..|matches|-1; on an empty list both leave the
\* cursor at -1; matches itself is never changed by either.
C15_Navigation ==
  LET n == Len(lastSearch.results)
  IN  lastSearch.op \in {"next", "previous"}
      => /\ searchResults = lastSearch.results
         /\ n = 0 => (currentResultIndex = lastSearch.index /\ currentResultIndex = -1)
         /\ n > 0 => currentResultIndex \in 0..(n - 1)
         /\ (n > 0 /\ lastSearch.op = "next")
              => currentResultIndex =
                   (IF lastSearch.index = n - 1 THEN 0 ELSE lastSearch.index + 1)
         /\ (n > 0 /\ lastSearch.op = "previous")
              => currentResultIndex =
                   (IF lastSearch.index = 0 THEN n - 1 ELSE lastSearch.index - 1)

\* C15 witness: next() on the last of several matches wraps to the first
C15_WitnessWrapForward ==
  /\ lastSearch.op = "next"
  /\ Len(lastSearch.results) >= 2
  /\ lastSearch.index = Len(lastSearch.results) - 1
  /\ currentResultIndex = 0

\* query occurs in line at some position, letters compared case-blind
HasOccurrence(line, query) ==
  \E i \in 1..(Len(line) - Len(query) + 1) :
    ToLowerCase(SubSeq(line, i, i + Len(query) - 1)) = ToLowerCase(query)

\* C16: setQuery leaves in matches the ascending 1-based numbers of exactly
\* the lines that contain the query case-insensitively (none for the empty
\* query), the cursor at 0 if there is a match and at -1 otherwise, whatever
\* the cursor was before, and a second setQuery with the same buffer and
\* query would leave the same matches and cursor.
C16_SetQuery ==
  lastSearch.op = "setQuery"
  => /\ searchQuery = lastSearch.arg
     /\ \A i \in 1..Len(searchResults) : searchResults[i] \in 1..Len(code)
     /\ \A i, j \in 1..Len(searchResults) :
           i < j => searchResults[i] < searchResults[j]
     /\ \A k \in 1..Len(code) :
           (\E i \in 1..Len(searchResults) : searchResults[i] = k)
             <=> (searchQuery # <<>> /\ HasOccurrence(code[k], searchQuery))
     /\ currentResultIndex = (IF searchResults # <<>> THEN 0 ELSE -1)
     /\ SetQueryResult(code, searchQuery) =
          [results |-> searchResults, index |-> currentResultIndex]

\* C16 witness: a query in other letter case, set after the cursor had been
\* moved off the first match, finds several lines and resets the cursor
C16_WitnessResetsCursor ==
  /\ lastSearch.op = "setQuery"
  /\ lastSearch.index > 0
  /\ lastSearch.arg = <<"F","O","O">>
  /\ Len(searchResults) >= 3
  /\ currentResultIndex = 0

\* C17: the cursor is -1 exactly when matches is empty, and otherwise
\* 0 <= cursor < |matches|.
C17_SearchStateInvariant ==
  /\ currentResultIndex = -1 <=> searchResults = <<>>
  /\ searchResults # <<>>
       => (0 <= currentResultIndex /\ currentResultIndex < Len(searchResults))

\* C17 witness: clear() after the cursor had been moved among the
\* initialSearchResults handed in by the caller
C17_WitnessClearAfterMove ==
  /\ lastSearch.op = "clear"
  /\ lastSearch.index > 0
  /\ searchResults = <<>>
  /\ currentResultIndex = -1

\* C18: closing the active Selection never leaves the closed path selected:
\* the new Selection is the tab that immediately preceded it in openedFiles,
\* or no Selection when it was the first tab.
C18_ClosePrevious ==
  (last.op = "close" /\ last.selected = last.path)
  => /\ selectedPath # last.path
     /\ \A i \in 1..Len(last.files) :
           last.files[i] = last.path
           => IF i > 1 THEN selectedPath = last.files[i - 1]
              ELSE NoSelection(selectedPath)

\* C19: toggleExpanded(path) flips the membership of path in expandedPaths,
\* changes the membership of no other path, leaves selectedPath and
\* openedFiles unchanged, and a second toggleExpanded(path) would restore
\* the expandedPaths it found.
C19_ToggleExpanded ==
  last.op = "toggleExpanded"
  => /\ last.path \in expandedPaths <=> last.path \notin last.expanded
     /\ expandedPaths \ {last.path} = last.expanded \ {last.path}
     /\ selectedPath = last.selected
     /\ openedFiles = last.files
     /\ ToggleExpanded(expandedPaths, last.path) = last.expanded

\* C19 witness: an expanded path toggled off while another path stays
\* expanded and a file is open and selected
C19_WitnessToggleOff ==
  /\ last.op = "toggleExpanded"
  /\ last.path \in last.expanded
  /\ last.path \notin expandedPaths
  /\ expandedPaths # {}
  /\ Len(openedFiles) >= 1
  /\ selectedPath = openedFiles[1]

====
